---------------------------- MODULE Spec2Model ----------------------------
(***************************************************************************)
(* Model of the render state and render loop of wgpu_beginner:             *)
(*   src/src/main.rs                          State::new, State::render,   *)
(*                                            State::resize, run           *)
(*   src/src/renderer_backend/mesh_builder.rs Vertex, Vertex::get_layout   *)
(*                                                                         *)
(* The windowing library, the GPU library and the pipeline / bind group    *)
(* layout / material builders are collaborators: what they hand to the     *)
(* code above (framebuffer size, surface capabilities, window events, the  *)
(* outcome of get_current_texture) is drawn from small sets.               *)
(*                                                                         *)
(* `log` records the calls the program makes, in order.  It is emptied at  *)
(* the start of every loop iteration (tick), so it always holds the calls  *)
(* of the current tick (or of initialization, before the first tick).      *)
(***************************************************************************)
EXTENDS Integers, Sequences, FiniteSets

VARIABLES
    pc,              \* position in run(): new, while, poll, events, render, acquired, match, swap, done, panicked
    size,            \* State.size : (i32, i32)
    config,          \* State.config : wgpu::SurfaceConfiguration
    surface,         \* the configuration last applied by surface.configure (whatever its area)
    render_pipeline, \* State.render_pipeline
    triangle_mesh,   \* State.triangle_mesh : wgpu::Buffer
    quad_mesh,       \* State.quad_mesh : mesh_builder::Mesh
    triangle_material, \* State.triangle_material
    quad_material,   \* State.quad_material
    should_close,    \* the window's should-close flag
    events,          \* messages waiting in the glfw event receiver
    os_pending,      \* window events that have arrived and that glfw has not delivered yet
    frame_arrivals,  \* how many of them arrived between a frame's acquisition and its present
    result,          \* value returned by the last state.render()
    fb_current,      \* size of the most recent FramebufferSize event, or the initial framebuffer size
    fb_valid,        \* size of the most recent FramebufferSize event with both dimensions positive, or the initial size
    log              \* calls made in the current tick, in order

\* meshes and materials: built once by State::new
assets == <<triangle_mesh, quad_mesh, triangle_material, quad_material>>

\* what the window system holds for the program
arrivals == <<os_pending, frame_arrivals>>

vars == <<pc, size, config, surface, render_pipeline, assets, should_close, events,
          arrivals, result, fb_current, fb_valid, log>>

---------------------------------------------------------------------------
(* Bounds of the model. *)

\* number of bits kept of a u32 (TLC integers are 32-bit signed); every
\* dimension drawn below lies strictly inside -(2^(IntBits-1)) .. 2^(IntBits-1)
IntBits == 16
\* largest framebuffer scale factor of the freshly created window
MaxScale == 2
\* framebuffer-size events carry k * 320 x k * 240 for k up to MaxEventScale
MaxEventScale == 2
\* most events delivered by one glfw.poll_events()
MaxEvents == 2
\* longest list of surface formats the adapter reports
MaxFormats == 2

(* Program constants. *)
WindowWidth  == 800
WindowHeight == 600
DesiredMaximumFrameLatency == 2

None == [none |-> TRUE]

---------------------------------------------------------------------------
(* Numeric conversions. *)

\* `x as u32` of an i32
AsU32(x) == x % (2 ^ IntBits)

---------------------------------------------------------------------------
(* What the collaborators can hand to the program. *)

Formats == {"Bgra8Unorm", "Bgra8UnormSrgb", "Rgba8UnormSrgb"}

\* wgpu::TextureFormat::is_srgb
is_srgb(f) == f \in {"Bgra8UnormSrgb", "Rgba8UnormSrgb"}

RECURSIVE SeqsUpTo(_, _)
SeqsUpTo(S, n) ==
    IF n = 0 THEN {<<>>}
    ELSE LET shorter == SeqsUpTo(S, n - 1)
         IN  shorter \cup {Append(s, x) : s \in {t \in shorter : Len(t) = n - 1}, x \in S}

\* surface.get_capabilities(&adapter): empty lists when the adapter cannot
\* present to the surface
Capabilities ==
    {[formats |-> <<>>, present_modes |-> <<>>, alpha_modes |-> <<>>]}
    \cup
    {[formats |-> f, present_modes |-> p, alpha_modes |-> <<"Opaque">>] :
        f \in SeqsUpTo(Formats, MaxFormats) \ {<<>>},
        p \in {<<"Fifo">>, <<"Mailbox", "Fifo">>}}

\* window.get_framebuffer_size() of the window made by create_window(800, 600):
\* the window size times the content scale, or 0 x 0 for a window that has no
\* framebuffer at that moment (minimized)
InitialFramebufferSizes ==
    {<<0, 0>>} \cup {<<k * WindowWidth, k * WindowHeight>> : k \in 1..MaxScale}

\* sizes a FramebufferSize event can carry
EventSizes ==
    {<<0, 0>>, <<WindowWidth, 0>>, <<-1, WindowHeight>>}
    \cup {<<k * 320, k * 240>> : k \in 1..MaxEventScale}

KeyEvent(key, action) == [kind |-> "Key", key |-> key, action |-> action, size |-> <<0, 0>>]
FramebufferSizeEvent(s) == [kind |-> "FramebufferSize", key |-> "", action |-> "", size |-> s]
SizeEvent(s) == [kind |-> "Size", key |-> "", action |-> "", size |-> s]

\* glfw::WindowEvent values the receiver can hold: one of every kind the match
\* in run() tells apart, and some it ignores.  (run() turns on key and size
\* polling; the loop is modelled for whatever the receiver delivers.)
WindowEvents ==
    {KeyEvent("Escape", "Press"), KeyEvent("Escape", "Release"), KeyEvent("A", "Press")}
    \cup {FramebufferSizeEvent(s) : s \in EventSizes}
    \cup {SizeEvent(<<WindowWidth, WindowHeight>>)}

\* wgpu::SurfaceError
SurfaceErrors == {"Timeout", "Outdated", "Lost", "OutOfMemory"}
RenderResults == {"Ok"} \cup SurfaceErrors

---------------------------------------------------------------------------
(* The call log. *)

Call(op, arg) == [op |-> op, arg |-> arg]

Count(l, op) == Cardinality({i \in 1..Len(l) : l[i].op = op})

Has(l, op) == \E i \in 1..Len(l) : l[i].op = op

\* index of the first / last call of `op` in l (0 when there is none)
FirstIndex(l, op) ==
    IF Has(l, op) THEN CHOOSE i \in 1..Len(l) : l[i].op = op /\ \A j \in 1..(i - 1) : l[j].op # op
    ELSE 0

LastIndex(l, op) ==
    IF Has(l, op) THEN CHOOSE i \in 1..Len(l) : l[i].op = op /\ \A j \in (i + 1)..Len(l) : l[j].op # op
    ELSE 0


---------------------------------------------------------------------------
(* mesh_builder.rs: the Vertex record and its declared layout. *)

\* struct Vertex, #[repr(C)]: two glm Vec3 fields (three f32 each)
Vertex == <<[name |-> "poistion", size |-> 12, align |-> 4],
            [name |-> "color",    size |-> 12, align |-> 4]>>

RoundUp(n, a) == ((n + a - 1) \div a) * a

MaxAlign(fields) ==
    IF fields = <<>> THEN 1
    ELSE CHOOSE a \in {fields[i].align : i \in 1..Len(fields)} :
             \A i \in 1..Len(fields) : fields[i].align <= a

\* offset of the field after the first n fields of a repr(C) struct, before
\* rounding to the next field's alignment
RECURSIVE EndOfFields(_, _)
EndOfFields(fields, n) ==
    IF n = 0 THEN 0
    ELSE RoundUp(EndOfFields(fields, n - 1), fields[n].align) + fields[n].size

\* byte offset of field n of a repr(C) struct
FieldOffset(fields, n) == RoundUp(EndOfFields(fields, n - 1), fields[n].align)

\* std::mem::size_of of a repr(C) struct
size_of(fields) == RoundUp(EndOfFields(fields, Len(fields)), MaxAlign(fields))

\* wgpu::VertexFormat::size
VertexFormatSize(format) ==
    CASE format = "Float32"   -> 4
      [] format = "Float32x2" -> 8
      [] format = "Float32x3" -> 12
      [] format = "Float32x4" -> 16

\* wgpu::vertex_attr_array!: attribute i starts where attribute i - 1 ends
RECURSIVE AttrEnd(_, _)
AttrEnd(decl, n) ==
    IF n = 0 THEN 0 ELSE AttrEnd(decl, n - 1) + VertexFormatSize(decl[n].format)

vertex_attr_array(decl) ==
    [i \in 1..Len(decl) |->
        [shader_location |-> decl[i].location,
         format          |-> decl[i].format,
         offset          |-> AttrEnd(decl, i - 1)]]

\* const ATTRIBUTES in Vertex::get_layout
ATTRIBUTES ==
    vertex_attr_array(<<[location |-> 0, format |-> "Float32x2"],
                        [location |-> 1, format |-> "Float32x2"]>>)

\* Vertex::get_layout()
get_layout ==
    [array_stride |-> size_of(Vertex),
     step_mode    |-> "Vertex",
     attributes   |-> ATTRIBUTES]

\* any_as_u8_slice(&array).len(): size_of of an array of n records
array_bytes(n, fields) == n * size_of(fields)

\* device.create_buffer_init: a buffer holding exactly the given contents
create_buffer_init(label, contents, bytes, usage) ==
    [label |-> label, contents |-> contents, size |-> bytes, usage |-> usage]

\* the vertices array of make_triangle; coordinates and colors in hundredths
triangle_vertices ==
    <<[poistion |-> <<-75, -75, 0>>, color |-> <<0, 0, 0>>],
      [poistion |-> << 75, -75, 0>>, color |-> <<0, 0, 0>>],
      [poistion |-> <<  0,  75, 0>>, color |-> <<100, 100, 100>>]>>

\* mesh_builder::make_triangle(device)
make_triangle ==
    create_buffer_init("Triangle Vertex Buffer",
                       triangle_vertices,
                       array_bytes(Len(triangle_vertices), Vertex),
                       "VERTEX")

(* make_quad and Mesh, as the design document describes them: 4 vertices,   *)
(* 6 16-bit indices forming two counter-clockwise triangles.                *)

\* the four corners (their coordinates are not part of the description)
quad_vertices == <<"corner0", "corner1", "corner2", "corner3">>

quad_indices == <<0, 1, 2, 2, 3, 0>>

\* bytes of one index of the given wgpu::IndexFormat
IndexFormatSize(format) == IF format = "Uint16" THEN 2 ELSE 4

make_quad ==
    [vertex_buffer |-> create_buffer_init("Quad Vertex Buffer", quad_vertices,
                                          array_bytes(Len(quad_vertices), Vertex), "VERTEX"),
     index_buffer  |-> create_buffer_init("Quad Index Buffer", quad_indices,
                                          Len(quad_indices) * IndexFormatSize("Uint16"), "INDEX")]

---------------------------------------------------------------------------
(* The bind group layout builder and Material, as the design document      *)
(* describes them.                                                         *)

bind_group_layout_Builder_new == <<>>

add_material(b) ==
    b \o <<[binding |-> Len(b),     kind |-> "texture_view", visibility |-> "FRAGMENT"],
           [binding |-> Len(b) + 1, kind |-> "sampler",      visibility |-> "FRAGMENT"]>>

bind_group_layout_build(b, label) == [label |-> label, entries |-> b]

Material_new(image_path, layout) ==
    [texture    |-> [image |-> image_path],
     sampler    |-> [of |-> image_path],
     bind_group |-> [layout  |-> layout.label,
                     entries |-> <<[binding |-> 0, resource |-> <<"texture_view", image_path>>],
                                   [binding |-> 1, resource |-> <<"sampler", image_path>>]>>]]

---------------------------------------------------------------------------
(* The pipeline builder (renderer_backend::pipeline), as the design        *)
(* document describes it: setters accumulate, build_pipeline finalizes.    *)

pipeline_Builder_new ==
    [shader |-> <<>>, pixel_format |-> "", vertex_buffer_layouts |-> <<>>,
     bind_group_layouts |-> <<>>]

set_shader_module(b, path, vs, fs) == [b EXCEPT !.shader = <<path, vs, fs>>]

set_pixel_format(b, format) == [b EXCEPT !.pixel_format = format]

add_vertex_buffer_layout(b, layout) ==
    [b EXCEPT !.vertex_buffer_layouts = Append(@, layout)]

add_bind_group_layout(b, layout) ==
    [b EXCEPT !.bind_group_layouts = Append(@, layout)]

build_pipeline(b, label) ==
    [label                 |-> label,
     shader                |-> b.shader,
     format                |-> b.pixel_format,
     vertex_buffer_layouts |-> b.vertex_buffer_layouts,
     bind_group_layouts    |-> b.bind_group_layouts]

---------------------------------------------------------------------------
(* State::new *)

Min(S) == CHOOSE x \in S : \A y \in S : x <= y

\* variant of select_format: the first format whatever it is
select_format_first(formats) == formats[1]

\* formats.iter().copied().filter(|f| f.is_srgb()).next().unwrap_or(formats[0]);
\* the argument of unwrap_or is evaluated first, so the caller needs a
\* non-empty list
select_format(formats) ==
    LET srgb == {i \in 1..Len(formats) : is_srgb(formats[i])}
    IN  IF srgb # {} THEN formats[Min(srgb)] ELSE formats[1]

\* the SurfaceConfiguration literal of State::new
new_config(sz, caps) ==
    [usage        |-> "RENDER_ATTACHMENT",
     format       |-> select_format(caps.formats),
     width        |-> AsU32(sz[1]),
     height       |-> AsU32(sz[2]),
     present_mode |-> caps.present_modes[1],
     alpha_mode   |-> caps.alpha_modes[1],
     view_formats |-> <<>>,
     desired_maximum_frame_latency |-> DesiredMaximumFrameLatency]

\* variant of new_render_pipeline: a fixed target format
new_render_pipeline_hardcoded(cfg, layout) ==
    build_pipeline(
        add_bind_group_layout(
            add_vertex_buffer_layout(
                set_pixel_format(
                    set_shader_module(pipeline_Builder_new,
                                      "shaders/shader.wgsl", "vs_main", "fs_main"),
                    "Bgra8Unorm"),
                get_layout),
            layout),
        "Render Pipeline")

\* the pipeline built in State::new from the configuration and the material
\* bind group layout
new_render_pipeline(cfg, layout) ==
    build_pipeline(
        add_bind_group_layout(
            add_vertex_buffer_layout(
                set_pixel_format(
                    set_shader_module(pipeline_Builder_new,
                                      "shaders/shader.wgsl", "vs_main", "fs_main"),
                    cfg.format),
                get_layout),
            layout),
        "Render Pipeline")

\* the material bind group layout built in State::new
new_material_bind_group_layout ==
    bind_group_layout_build(add_material(bind_group_layout_Builder_new),
                            "Material Bind Group Layout")

\* variant of new_calls: the pipeline is built before the surface is
\* configured, and the second material against a layout of its own
new_calls_reordered(fb, caps, cfg) ==
    <<Call("get_framebuffer_size", fb),
      Call("Instance::new", <<"DX12">>),
      Call("create_surface_unsafe", <<>>),
      Call("request_adapter", <<>>),
      Call("request_device", <<>>),
      Call("get_capabilities", caps),
      Call("make_triangle", <<>>),
      Call("make_quad", <<>>),
      Call("bind_group_layout::build", <<"Material Bind Group Layout">>),
      Call("set_pixel_format", <<cfg.format>>),
      Call("add_bind_group_layout", <<"Material Bind Group Layout">>),
      Call("build_pipeline", <<"Render Pipeline">>),
      Call("configure", <<cfg.width, cfg.height>>),
      Call("Material::new", <<"img/satin.jpg", "Material Bind Group Layout">>),
      Call("Material::new", <<"img/grunge.jpg", "Quad Bind Group Layout">>)>>

\* the calls of State::new, in program order
new_calls(fb, caps, cfg) ==
    <<Call("get_framebuffer_size", fb),
      Call("Instance::new", <<"DX12">>),
      Call("create_surface_unsafe", <<>>),
      Call("request_adapter", <<>>),
      Call("request_device", <<>>),
      Call("get_capabilities", caps),
      Call("configure", <<cfg.width, cfg.height>>),
      Call("make_triangle", <<>>),
      Call("make_quad", <<>>),
      Call("bind_group_layout::build", <<"Material Bind Group Layout">>),
      Call("set_pixel_format", <<cfg.format>>),
      Call("add_bind_group_layout", <<"Material Bind Group Layout">>),
      Call("build_pipeline", <<"Render Pipeline">>),
      Call("Material::new", <<"img/satin.jpg", "Material Bind Group Layout">>),
      Call("Material::new", <<"img/grunge.jpg", "Material Bind Group Layout">>)>>

\* State::new(&mut window).await, on the window create_window just made
new ==
    /\ pc = "new"
    /\ \E fb \in InitialFramebufferSizes, caps \in Capabilities :
         IF caps.formats = <<>> \/ caps.present_modes = <<>> \/ caps.alpha_modes = <<>>
         THEN \* formats[0] / present_modes[0] / alpha_modes[0]: index out of bounds
              /\ pc' = "panicked"
              /\ log' = <<Call("get_framebuffer_size", fb),
                          Call("Instance::new", <<"DX12">>),
                          Call("create_surface_unsafe", <<>>),
                          Call("request_adapter", <<>>),
                          Call("request_device", <<>>),
                          Call("get_capabilities", caps)>>
              /\ UNCHANGED <<size, config, surface, render_pipeline, assets, fb_current, fb_valid>>
         ELSE /\ size' = fb
              /\ config' = new_config(fb, caps)
              /\ surface' = config'
              /\ triangle_mesh' = make_triangle
              /\ quad_mesh' = make_quad
              /\ render_pipeline' =
                     new_render_pipeline(config', new_material_bind_group_layout.label)
              /\ triangle_material' =
                     Material_new("img/satin.jpg", new_material_bind_group_layout)
              /\ quad_material' =
                     Material_new("img/grunge.jpg", new_material_bind_group_layout)
              /\ fb_current' = fb
              /\ fb_valid' = fb
              /\ log' = new_calls(fb, caps, config')
              /\ pc' = "while"
    /\ UNCHANGED <<should_close, events, arrivals, result>>

---------------------------------------------------------------------------
(* State::resize *)

\* variants of resize_guard: `||` for `&&`, `>=` for `>`
resize_guard_either(new_size) == new_size[1] > 0 \/ new_size[2] > 0

resize_guard_nonnegative(new_size) == new_size[1] >= 0 /\ new_size[2] >= 0

\* new_size.0 > 0 && new_size.1 > 0
resize_guard(new_size) == new_size[1] > 0 /\ new_size[2] > 0

\* variant of resized_config: width and height taken from the wrong components
resized_config_swapped(cfg, new_size) ==
    [cfg EXCEPT !.width = AsU32(new_size[2]), !.height = AsU32(new_size[1])]

\* the assignments to self.config in resize
resized_config(cfg, new_size) ==
    [cfg EXCEPT !.width = AsU32(new_size[1]), !.height = AsU32(new_size[2])]

\* variant of resize: the stored size is not updated
resize_forgets_size(new_size, l) ==
    IF resize_guard(new_size)
    THEN /\ UNCHANGED size
         /\ config' = resized_config(config, new_size)
         /\ surface' = config'
         /\ log' = l \o <<Call("resize", new_size),
                          Call("configure", <<config'.width, config'.height>>)>>
    ELSE /\ UNCHANGED <<size, config, surface>>
         /\ log' = Append(l, Call("resize", new_size))

\* state.resize(new_size), called with the calls made so far in `l`
resize(new_size, l) ==
    IF resize_guard(new_size)
    THEN /\ size' = new_size
         /\ config' = resized_config(config, new_size)
         /\ surface' = config'
         /\ log' = l \o <<Call("resize", new_size),
                          Call("configure", <<config'.width, config'.height>>)>>
    ELSE /\ UNCHANGED <<size, config, surface>>
         /\ log' = Append(l, Call("resize", new_size))

---------------------------------------------------------------------------
(* State::render *)

\* render(): from the texture view to set_pipeline
begin_calls ==
    <<Call("create_view", <<>>),
      Call("create_command_encoder", <<>>),
      Call("begin_render_pass", <<>>),
      Call("set_pipeline", <<render_pipeline.label>>)>>

\* render(): the quad
quad_draw_calls ==
    <<Call("set_bind_group", <<0, quad_material.bind_group>>),
      Call("set_vertex_buffer", <<0, quad_mesh.vertex_buffer>>),
      Call("set_index_buffer", <<quad_mesh.index_buffer, "Uint16">>),
      Call("draw_indexed", <<0, 6, 0, 0, 1>>)>>

\* variants of triangle_draw_calls: the quad's count used for the triangle;
\* the triangle's bind group never bound
triangle_draw_calls_overdraw ==
    <<Call("set_bind_group", <<0, triangle_material.bind_group>>),
      Call("set_vertex_buffer", <<0, triangle_mesh>>),
      Call("draw", <<0, 6, 0, 1>>)>>

triangle_draw_calls_no_rebind ==
    <<Call("set_vertex_buffer", <<0, triangle_mesh>>),
      Call("draw", <<0, 3, 0, 1>>)>>

\* render(): the triangle
triangle_draw_calls ==
    <<Call("set_bind_group", <<0, triangle_material.bind_group>>),
      Call("set_vertex_buffer", <<0, triangle_mesh>>),
      Call("draw", <<0, 3, 0, 1>>)>>

\* variant of finish_calls: the frame presented before the commands are
\* submitted
finish_calls_present_first ==
    <<Call("end_render_pass", <<>>),
      Call("present", <<>>),
      Call("submit", <<>>),
      Call("render", <<"Ok">>)>>

\* render(): the end of the pass (the block closes), submit, present, Ok(())
finish_calls ==
    <<Call("end_render_pass", <<>>),
      Call("submit", <<>>),
      Call("present", <<>>),
      Call("render", <<"Ok">>)>>

\* the calls of render() from the creation of the texture view to the
\* return of Ok(()), made once the surface texture has been acquired
frame_calls == begin_calls \o quad_draw_calls \o triangle_draw_calls \o finish_calls

\* variant of error_calls: the (empty) command buffer is submitted before the
\* error is returned
error_calls_submit(r) ==
    <<Call("get_current_texture", <<r>>), Call("submit", <<>>), Call("render", <<r>>)>>

\* the calls of render() when get_current_texture()? returns the error r
error_calls(r) ==
    <<Call("get_current_texture", <<r>>), Call("render", <<r>>)>>

\* the calls of one render() that returns r
render_calls(r) ==
    IF r # "Ok"
    THEN error_calls(r)
    ELSE <<Call("get_current_texture", <<r>>)>> \o frame_calls

\* let drawable = self.surface.get_current_texture()?; it can fail with any
\* SurfaceError, and render() then returns that error at once
render_acquire ==
    /\ pc = "render"
    /\ \E r \in RenderResults :
         IF r = "Ok"
         THEN /\ log' = Append(log, Call("get_current_texture", <<r>>))
              /\ pc' = "acquired"
              /\ UNCHANGED result
         ELSE /\ log' = log \o error_calls(r)
              /\ result' = r
              /\ pc' = "match"
    /\ UNCHANGED <<size, config, surface, render_pipeline, assets, should_close, events,
                   arrivals, fb_current, fb_valid>>

\* the rest of render(): the render pass, submit, present, Ok(())
render_frame ==
    /\ pc = "acquired"
    /\ log' = log \o frame_calls
    /\ result' = "Ok"
    /\ pc' = "match"
    /\ UNCHANGED <<size, config, surface, render_pipeline, assets, should_close, events,
                   arrivals, fb_current, fb_valid>>

\* state.render() as called by the loop
render ==
    \/ render_acquire
    \/ render_frame

---------------------------------------------------------------------------
(* run: the loop *)

Positive(s) == s[1] >= 1 /\ s[2] >= 1

\* while !state.window.should_close()
run_while ==
    /\ pc = "while"
    /\ IF should_close
       THEN /\ pc' = "done"
            /\ UNCHANGED log
       ELSE /\ pc' = "poll"
            /\ log' = <<>>
    /\ UNCHANGED <<size, config, surface, render_pipeline, assets, should_close, events,
                   arrivals, result, fb_current, fb_valid>>

\* the window system queues an event for the window.  Nothing of the program
\* runs for it until the next glfw.poll_events(), and no step of the program
\* reads that queue in between; what the event is shows when it is delivered.
\* So two moments of arrival are told apart: between a frame's acquisition
\* and its present (pc = "acquired"), and any other moment since the last
\* poll_events, which is taken just before the next one (pc = "poll").
event_arrives ==
    /\ pc \in {"poll", "acquired"}
    /\ os_pending < MaxEvents
    /\ os_pending' = os_pending + 1
    /\ frame_arrivals' = IF pc = "acquired" THEN frame_arrivals + 1 ELSE frame_arrivals
    /\ UNCHANGED <<pc, size, config, surface, render_pipeline, assets, should_close,
                   events, result, fb_current, fb_valid, log>>

\* glfw.poll_events(): the window's callbacks queue the pending events and
\* set the should-close flag when the user asked to close the window
poll_events ==
    /\ pc = "poll"
    /\ \E evs \in SeqsUpTo(WindowEvents, MaxEvents), close \in BOOLEAN :
         /\ Len(evs) = os_pending
         /\ events' = evs
         /\ os_pending' = 0
         /\ frame_arrivals' = 0
         /\ should_close' = (should_close \/ close)
         /\ log' = log \o <<Call("poll_events", <<>>)>>
                       \o (IF close THEN <<Call("close_requested", <<>>)>> ELSE <<>>)
    /\ pc' = "events"
    /\ UNCHANGED <<size, config, surface, render_pipeline, assets, result, fb_current, fb_valid>>

\* the Key(Key::Escape, _, Action::Press, _) arm
on_escape(e) ==
    /\ should_close' = TRUE
    /\ log' = log \o <<Call("close_requested", <<>>), Call("set_should_close", <<>>)>>
    /\ UNCHANGED <<size, config, surface, fb_current, fb_valid>>

\* the FramebufferSize(width, height) arm
on_framebuffer_size(e) ==
    /\ resize(e.size, log)
    /\ fb_current' = e.size
    /\ fb_valid' = IF Positive(e.size) THEN e.size ELSE fb_valid
    /\ UNCHANGED should_close

\* variant of run_event: one message handled per tick, the loop over the
\* receiver left after it
run_event_once ==
    /\ pc = "events"
    /\ events # <<>>
    /\ LET e == Head(events)
       IN  IF e.kind = "Key" /\ e.key = "Escape" /\ e.action = "Press"
           THEN on_escape(e)
           ELSE IF e.kind = "FramebufferSize"
           THEN on_framebuffer_size(e)
           ELSE UNCHANGED <<size, config, surface, should_close, fb_current, fb_valid, log>>
    /\ events' = Tail(events)
    /\ pc' = "render"
    /\ UNCHANGED <<render_pipeline, assets, arrivals, result>>

\* one iteration of `for (_, event) in glfw::flush_messages(&events)`
run_event ==
    /\ pc = "events"
    /\ events # <<>>
    /\ LET e == Head(events)
       IN  IF e.kind = "Key" /\ e.key = "Escape" /\ e.action = "Press"
           THEN on_escape(e)
           ELSE IF e.kind = "FramebufferSize"
           THEN on_framebuffer_size(e)
           ELSE UNCHANGED <<size, config, surface, should_close, fb_current, fb_valid, log>>
    /\ events' = Tail(events)
    /\ pc' = "events"
    /\ UNCHANGED <<render_pipeline, assets, arrivals, result>>

\* the receiver is empty: the for loop ends
run_events_done ==
    /\ pc = "events"
    /\ events = <<>>
    /\ pc' = "render"
    /\ UNCHANGED <<size, config, surface, render_pipeline, assets, should_close, events,
                   arrivals, result, fb_current, fb_valid, log>>

\* variant of on_lost_or_outdated: reconfigures to the last reported
\* framebuffer size instead of the stored size
on_lost_or_outdated_reported ==
    /\ resize(fb_current, log)
    /\ UNCHANGED should_close

\* Err(Lost | Outdated) => state.resize(state.size)
on_lost_or_outdated ==
    /\ resize(size, log)
    /\ UNCHANGED should_close

\* variants of on_other_error: every error treated as recoverable; every
\* other error treated as fatal
on_other_error_reconfigure ==
    /\ resize(size, log)
    /\ UNCHANGED should_close

on_other_error_fatal ==
    /\ log' = Append(log, Call("eprint", <<result>>))
    /\ should_close' = TRUE
    /\ UNCHANGED <<size, config, surface>>

\* Err(e) => eprint!("{:?}", e)
on_other_error ==
    /\ log' = Append(log, Call("eprint", <<result>>))
    /\ UNCHANGED <<size, config, surface, should_close>>

\* match state.render() { ... }
run_match ==
    /\ pc = "match"
    /\ IF result = "Ok"
       THEN UNCHANGED <<size, config, surface, should_close, log>>
       ELSE IF result \in {"Lost", "Outdated"}
       THEN on_lost_or_outdated
       ELSE on_other_error
    /\ result' = None
    /\ pc' = "swap"
    /\ UNCHANGED <<render_pipeline, assets, events, arrivals, fb_current, fb_valid>>

\* state.window.swap_buffers()
swap_buffers ==
    /\ pc = "swap"
    /\ log' = Append(log, Call("swap_buffers", <<>>))
    /\ pc' = "while"
    /\ UNCHANGED <<size, config, surface, render_pipeline, assets, should_close, events,
                   arrivals, result, fb_current, fb_valid>>

---------------------------------------------------------------------------

\* run() up to State::new: glfw initialized, the 800 x 600 window created,
\* no State yet
Init ==
    /\ pc = "new"
    /\ size = None
    /\ config = None
    /\ surface = None
    /\ render_pipeline = None
    /\ should_close = FALSE
    /\ events = <<>>
    /\ os_pending = 0
    /\ frame_arrivals = 0
    /\ triangle_mesh = None
    /\ quad_mesh = None
    /\ triangle_material = None
    /\ quad_material = None
    /\ result = None
    /\ fb_current = None
    /\ fb_valid = None
    /\ log = <<>>

Next ==
    \/ new
    \/ run_while
    \/ event_arrives
    \/ poll_events
    \/ run_event
    \/ run_events_done
    \/ render
    \/ run_match
    \/ swap_buffers

Spec == Init /\ [][Next]_vars

\* the loop runs whenever it can: run() is the only thread
FairSpec == Spec /\ WF_vars(Next)

---------------------------------------------------------------------------
(* Vocabulary of the properties. *)

Initialized == pc \notin {"new", "panicked"}

NonPositive(s) == s[1] <= 0 \/ s[2] <= 0

LostOrOutdated == {"Lost", "Outdated"}

\* position of the tick's render() return in the log (0 before it)
RenderIdx == FirstIndex(log, "render")

\* the result the tick's render() returned
RenderResult == log[RenderIdx].arg[1]

\* positions of the resize calls made before / after the tick's render()
ResizesBeforeRender == {i \in 1..Len(log) : log[i].op = "resize" /\ i < RenderIdx}

ResizesAfterRender == {i \in 1..Len(log) : log[i].op = "resize" /\ RenderIdx > 0 /\ i > RenderIdx}

Max(S) == CHOOSE x \in S : \A y \in S : y <= x

\* the next step of the program is the call resize(arg)
ResizeCallNext(arg) ==
    \/ /\ pc = "events"
       /\ events # <<>>
       /\ Head(events).kind = "FramebufferSize"
       /\ arg = Head(events).size
    \/ /\ pc = "match"
       /\ result \in LostOrOutdated
       /\ arg = size

ResizeArgs == EventSizes \cup InitialFramebufferSizes

---------------------------------------------------------------------------
\* C1: when render() has returned (with any outcome) and the last resize call
\* before it had a positive width and height (w, h), the configuration's width
\* and height are w and h, the stored size is (w, h), and the program has not
\* panicked.
C1_ResizeThenRender ==
    (RenderIdx > 0 /\ ResizesBeforeRender # {}
        /\ Positive(log[Max(ResizesBeforeRender)].arg))
    => LET req == log[Max(ResizesBeforeRender)].arg
       IN  /\ config.width = req[1]
           /\ config.height = req[2]
           /\ size = req
           /\ pc # "panicked"

\* a positive resize was followed by a render() that failed
C1_Witness ==
    /\ pc = "match"
    /\ result = "Timeout"
    /\ ResizesBeforeRender # {}
    /\ Positive(log[Max(ResizesBeforeRender)].arg)
    /\ size # <<WindowWidth, WindowHeight>>

\* C2: a resize call whose width or height is zero or negative changes
\* neither the stored size, nor the configuration, nor the configuration
\* applied to the surface, and issues no surface.configure call: the only
\* thing that happens is the call itself.  This holds of every such call, so
\* of any number of them in a row.
C2_RejectedResizeIsNoOp ==
    [][\A arg \in ResizeArgs :
          (ResizeCallNext(arg) /\ NonPositive(arg))
          => /\ size' = size
             /\ config' = config
             /\ surface' = surface
             /\ Count(log', "configure") = Count(log, "configure")
             /\ log' = Append(log, Call("resize", arg))]_vars

\* two rejected resize calls in a row have been made
C2_Witness ==
    \E i \in 1..(Len(log) - 1) :
        /\ log[i].op = "resize" /\ NonPositive(log[i].arg)
        /\ log[i + 1].op = "resize" /\ NonPositive(log[i + 1].arg)
        /\ surface.width > 0

\* C3: the configuration applied to the surface never has a zero width or
\* height: neither the one applied by State::new nor any applied by resize.
C3_NeverZeroArea ==
    /\ (Initialized => surface.width > 0 /\ surface.height > 0)
    /\ \A i \in 1..Len(log) :
          log[i].op = "configure" => log[i].arg[1] > 0 /\ log[i].arg[2] > 0

\* C4 (as claimed): at every render() call the configuration's (width, height)
\* is the size of the most recent FramebufferSize event, or the initial
\* framebuffer size if there was none, zero-dimension events included.
\* Stated for the runs that owe nothing to C3: the surface holds a non-empty
\* configuration and the last event carried no negative dimension.
C4_ConfigTracksEveryEvent ==
    (/\ pc = "render"
     /\ surface.width > 0 /\ surface.height > 0
     /\ fb_current[1] >= 0 /\ fb_current[2] >= 0)
    => <<config.width, config.height>> = fb_current

\* C4 (amended): at every render() call the configuration's (width, height) is
\* the size of the most recent FramebufferSize event whose width and height
\* are both positive, or the initial framebuffer size if there was none.
C4_ConfigTracksValidEvents ==
    pc = "render" => <<config.width, config.height>> = fb_valid

\* render() is about to be called after a positive resize event followed by a
\* zero-dimension one
C4_Witness ==
    /\ pc = "render"
    /\ Has(log, "configure")
    /\ fb_current # fb_valid

---------------------------------------------------------------------------
\* C5: when render() has returned Lost or Outdated, the match makes exactly
\* one resize call, whose argument is the stored size, reports nothing, leaves
\* the should-close flag alone and goes on to swap_buffers; from there the
\* loop returns to its condition and, unless a close was requested, starts
\* the next tick.  No other resize call follows that tick's render().
C5_RecoveryResizesOnce ==
    /\ [][(pc = "match" /\ result \in LostOrOutdated)
          => /\ Len(log') > Len(log)
             /\ log'[Len(log) + 1] = Call("resize", size)
             /\ Count(log', "resize") = Count(log, "resize") + 1
             /\ Count(log', "eprint") = Count(log, "eprint")
             /\ should_close' = should_close
             /\ pc' = "swap"]_vars
    /\ [][(pc = "swap" => pc' = "while")
          /\ (pc = "while" /\ ~should_close => pc' = "poll")]_vars
    /\ [](pc \in {"swap", "while", "done"} /\ RenderIdx > 0
          => Cardinality(ResizesAfterRender)
               = (IF RenderResult \in LostOrOutdated THEN 1 ELSE 0))

\* render() returned Outdated after the tick's events had resized the
\* surface; the recovery call has been made and no close is pending
C5_Witness ==
    /\ pc = "swap"
    /\ RenderIdx > 0
    /\ RenderResult = "Outdated"
    /\ ResizesBeforeRender # {}
    /\ Cardinality(ResizesAfterRender) = 1
    /\ log[Len(log) - 1] = Call("resize", size)
    /\ size # fb_current
    /\ ~should_close

\* C6: once the loop has observed a close request (it has handled the Escape
\* press and called set_should_close, or it has read the should-close flag as
\* set at its condition), no render() call is issued any more, and the loop
\* terminates at its next condition check.
C6_NoRenderAfterClose ==
    /\ \A i \in 1..Len(log), j \in 1..Len(log) :
          (log[i].op = "set_should_close" /\ log[j].op = "get_current_texture") => j < i
    /\ (pc = "poll" => ~should_close)
    /\ (pc = "done" => should_close)

\* C7: when render() has returned an error other than Lost and Outdated, the
\* match reports that error and does nothing else: no resize call, no
\* surface.configure, stored size, configuration and applied configuration
\* unchanged, should-close flag unchanged, and the loop goes on to
\* swap_buffers.
C7_OtherErrorsOnlyReported ==
    [][(pc = "match" /\ result \in SurfaceErrors \ LostOrOutdated)
       => /\ log' = Append(log, Call("eprint", <<result>>))
          /\ size' = size
          /\ config' = config
          /\ surface' = surface
          /\ should_close' = should_close
          /\ pc' = "swap"]_vars

\* an OutOfMemory error has been reported and the loop is still running
C7_Witness ==
    /\ pc = "swap"
    /\ log[Len(log)] = Call("eprint", <<"OutOfMemory">>)
    /\ ~Has(log, "resize")
    /\ ~should_close

\* C8: the loop ends only on a close request, whatever render() returns: it
\* reaches `done` only in a tick in which a close was requested, it can always
\* take a step otherwise, and every tick calls render() exactly once (no call
\* before the events are drained, one by the time of swap_buffers).
C8_LoopNeverEndsItself ==
    /\ (pc = "done" => Has(log, "close_requested"))
    /\ (~should_close => pc # "done")
    /\ (pc \in {"poll", "events", "render"} => Count(log, "render") = 0)
    /\ (pc \in {"match", "swap"} => Count(log, "render") = 1)
    /\ (pc = "while" /\ Has(log, "swap_buffers") => Count(log, "render") = 1)
    /\ (pc \notin {"done", "panicked"} => ENABLED Next)

\* a tick whose render() failed with OutOfMemory has ended with no close
\* request, and the loop is back at its condition
C8_Witness ==
    /\ pc = "while"
    /\ Has(log, "swap_buffers")
    /\ RenderResult = "OutOfMemory"
    /\ ~should_close

\* C9: State::new on a window whose framebuffer is 800 x 600 leaves a
\* configuration of width 800 and height 600 and a pipeline whose target
\* format is the format applied to the surface; in every later state the
\* pipeline's target format is the configuration's format and the format
\* applied to the surface, and after State::new only the configuration's
\* width and height ever change.
C9_PipelineFormatMatches ==
    /\ []((pc = "while" /\ Has(log, "get_framebuffer_size")
              /\ log[1].arg = <<WindowWidth, WindowHeight>>)
          => /\ config.width = 800
             /\ config.height = 600
             /\ render_pipeline.format = surface.format)
    /\ [](Initialized => /\ render_pipeline.format = config.format
                         /\ render_pipeline.format = surface.format)
    /\ [][Initialized
          => /\ render_pipeline' = render_pipeline
             /\ [config' EXCEPT !.width = 0, !.height = 0]
                  = [config EXCEPT !.width = 0, !.height = 0]]_vars

\* a resize has changed the configuration of a state initialized on a window
\* that reported an sRGB format after a non-sRGB one
C9_Witness ==
    /\ pc = "render"
    /\ Has(log, "configure")
    /\ config.width # WindowWidth
    /\ render_pipeline.format = "Bgra8UnormSrgb"

\* C10: the layout Vertex::get_layout() returns has exactly 2
\* attributes, the first at offset 0 and each starting where the one before
\* ends, and their sizes add up to the size of the Vertex record (two fields
\* of 3 x 32-bit floats) and to the layout's array stride.
C10_LayoutMatchesVertex ==
    Initialized =>
        LET layout == get_layout
            attrs  == layout.attributes
            total  == attrs[Len(attrs)].offset + VertexFormatSize(attrs[Len(attrs)].format)
        IN  /\ Len(attrs) = 2
            /\ attrs[1].offset = 0
            /\ \A i \in 2..Len(attrs) :
                  attrs[i].offset = attrs[i - 1].offset + VertexFormatSize(attrs[i - 1].format)
            /\ total = size_of(Vertex)
            /\ total = layout.array_stride
            /\ size_of(Vertex) = 2 * (3 * 4)

---------------------------------------------------------------------------
(* Vocabulary of the properties about one frame. *)

\* the argument of the last call of `op` made before position i of the log
BoundAt(i, op) == log[Max({j \in 1..(i - 1) : log[j].op = op})].arg

IsBoundAt(i, op) == \E j \in 1..(i - 1) : log[j].op = op

Draws(op) == {i \in 1..Len(log) : log[i].op = op}

\* render() has returned Ok in this tick
FrameDone == RenderIdx > 0 /\ RenderResult = "Ok"

\* bytes between two vertices, as the pipeline reads the vertex buffer
Stride == render_pipeline.vertex_buffer_layouts[1].array_stride

---------------------------------------------------------------------------
\* C11: the triangle buffer holds exactly 3 vertices (3 x size of Vertex
\* bytes) and comes with no index buffer; the quad mesh holds exactly 4
\* vertices and 6 16-bit indices; every non-indexed draw of render() starts at
\* vertex 0, ends exactly at the end of the bound vertex buffer and draws 1
\* instance; every indexed draw starts at index 0, ends exactly at the end of
\* the bound index buffer, reads no vertex beyond the bound vertex buffer and
\* draws 1 instance.
C11_MeshCountsAndDrawRanges ==
    Initialized =>
        /\ Len(triangle_mesh.contents) = 3
        /\ triangle_mesh.size = 3 * size_of(Vertex)
        /\ "index_buffer" \notin DOMAIN triangle_mesh
        /\ Len(quad_mesh.vertex_buffer.contents) = 4
        /\ quad_mesh.vertex_buffer.size = 4 * size_of(Vertex)
        /\ Len(quad_mesh.index_buffer.contents) = 6
        /\ \A i \in Draws("draw") :
              LET d  == log[i].arg
                  vb == BoundAt(i, "set_vertex_buffer")[2]
              IN  /\ d[1] = 0
                  /\ d[2] * Stride = vb.size
                  /\ d[2] = Len(vb.contents)
                  /\ <<d[3], d[4]>> = <<0, 1>>
        /\ \A i \in Draws("draw_indexed") :
              LET d  == log[i].arg
                  vb == BoundAt(i, "set_vertex_buffer")[2]
                  ib == BoundAt(i, "set_index_buffer")
              IN  /\ d[1] = 0
                  /\ d[2] * IndexFormatSize(ib[2]) = ib[1].size
                  /\ d[2] = Len(ib[1].contents)
                  /\ \A k \in (d[1] + 1)..d[2] :
                        (ib[1].contents[k] + d[3] + 1) * Stride <= vb.size
                  /\ <<d[4], d[5]>> = <<0, 1>>

\* a frame has been drawn: both draws are in the log
C11_Witness ==
    /\ pc = "match"
    /\ Draws("draw") # {}
    /\ Draws("draw_indexed") # {}

\* C12: a render() that returns Ok has made, in this order: one
\* get_current_texture, one begin_render_pass, one set_pipeline, the indexed
\* draw of the quad, the draw of the triangle (two draws in all, both inside
\* the pass), one end of the pass, one submit, one present; a frame that has
\* been acquired and not yet finished has been neither submitted nor
\* presented.
C12_FrameOrder ==
    /\ FrameDone =>
          /\ \A op \in {"get_current_texture", "begin_render_pass", "set_pipeline",
                        "draw_indexed", "draw", "end_render_pass", "submit", "present"} :
                Count(log, op) = 1
          /\ FirstIndex(log, "get_current_texture") < FirstIndex(log, "begin_render_pass")
          /\ FirstIndex(log, "begin_render_pass") < FirstIndex(log, "set_pipeline")
          /\ FirstIndex(log, "set_pipeline") < FirstIndex(log, "draw_indexed")
          /\ FirstIndex(log, "draw_indexed") < FirstIndex(log, "draw")
          /\ FirstIndex(log, "draw") < FirstIndex(log, "end_render_pass")
          /\ FirstIndex(log, "end_render_pass") < FirstIndex(log, "submit")
          /\ FirstIndex(log, "submit") < FirstIndex(log, "present")
          /\ FirstIndex(log, "present") < RenderIdx
          /\ \A i \in 1..Len(log) :
                log[i].op \in {"set_bind_group", "set_vertex_buffer", "set_index_buffer"}
                => /\ FirstIndex(log, "set_pipeline") < i
                   /\ i < FirstIndex(log, "end_render_pass")
    /\ pc = "acquired" =>
          /\ Count(log, "get_current_texture") = 1
          /\ Count(log, "submit") = 0
          /\ Count(log, "present") = 0
    /\ (Has(log, "submit") \/ Has(log, "present")) => FrameDone

\* render() has just returned Ok
C12_Witness ==
    /\ pc = "match"
    /\ result = "Ok"
    /\ Has(log, "present")

\* C13: at the indexed draw the bind group at slot 0 is the quad material's,
\* the vertex buffer at slot 0 is the quad's and the index buffer is the
\* quad's, read as 16-bit; at the non-indexed draw the bind group at slot 0 is
\* the triangle material's and the vertex buffer at slot 0 is the triangle's;
\* the two materials' bind groups and the two vertex buffers are different
\* objects.
C13_DrawsUseOwnResources ==
    Initialized =>
        /\ quad_material.bind_group # triangle_material.bind_group
        /\ quad_mesh.vertex_buffer # triangle_mesh
        /\ \A i \in Draws("draw_indexed") :
              /\ IsBoundAt(i, "set_bind_group")
              /\ IsBoundAt(i, "set_vertex_buffer")
              /\ IsBoundAt(i, "set_index_buffer")
              /\ BoundAt(i, "set_bind_group") = <<0, quad_material.bind_group>>
              /\ BoundAt(i, "set_vertex_buffer") = <<0, quad_mesh.vertex_buffer>>
              /\ BoundAt(i, "set_index_buffer") = <<quad_mesh.index_buffer, "Uint16">>
        /\ \A i \in Draws("draw") :
              /\ IsBoundAt(i, "set_bind_group")
              /\ IsBoundAt(i, "set_vertex_buffer")
              /\ BoundAt(i, "set_bind_group") = <<0, triangle_material.bind_group>>
              /\ BoundAt(i, "set_vertex_buffer") = <<0, triangle_mesh>>

\* the triangle has been drawn after the quad in the same pass
C13_Witness ==
    /\ pc = "match"
    /\ \E i \in Draws("draw_indexed"), j \in Draws("draw") : i < j

---------------------------------------------------------------------------
(* Vocabulary of the properties about initialization. *)

\* the log still holds the calls of State::new (no tick has started)
InitLog == Has(log, "Instance::new") /\ Has(log, "Material::new")

Idx(op) == FirstIndex(log, op)

\* surface.configure calls made after the tick's render() returned
ConfiguresAfterRender ==
    {i \in 1..Len(log) : log[i].op = "configure" /\ RenderIdx > 0 /\ i > RenderIdx}

---------------------------------------------------------------------------
\* C14: when render() has returned Lost or Outdated, the recovery applies the
\* stored configuration to the surface exactly once before the tick ends
\* (so before the next render() attempt), whatever the stored size is, the
\* size captured by State::new included.
C14_RecoveryReconfigures ==
    (pc = "swap" /\ RenderIdx > 0 /\ RenderResult \in LostOrOutdated)
    => /\ Cardinality(ConfiguresAfterRender) = 1
       /\ \A i \in ConfiguresAfterRender : log[i].arg = <<config.width, config.height>>
       /\ surface = config

\* C15: State::new creates the instance, the surface, the adapter, the
\* device and queue, configures the surface, builds the meshes, the bind
\* group layout, the pipeline and the two materials, in this order, each
\* once; the layout handed to the pipeline builder and to both materials is
\* the one built just before; no resize and no render() call is made during
\* initialization, and whenever one is made every field of State exists.
C15_InitializationOrder ==
    /\ InitLog =>
          /\ \A op \in {"Instance::new", "create_surface_unsafe", "request_adapter",
                        "request_device", "get_capabilities", "configure",
                        "make_triangle", "make_quad", "bind_group_layout::build",
                        "add_bind_group_layout", "build_pipeline"} :
                Count(log, op) = 1
          /\ Count(log, "Material::new") = 2
          /\ Idx("Instance::new") < Idx("create_surface_unsafe")
          /\ Idx("create_surface_unsafe") < Idx("request_adapter")
          /\ Idx("request_adapter") < Idx("request_device")
          /\ Idx("request_device") < Idx("configure")
          /\ Idx("configure") < Idx("make_triangle")
          /\ Idx("configure") < Idx("make_quad")
          /\ Idx("make_triangle") < Idx("bind_group_layout::build")
          /\ Idx("make_quad") < Idx("bind_group_layout::build")
          /\ Idx("bind_group_layout::build") < Idx("add_bind_group_layout")
          /\ Idx("add_bind_group_layout") < Idx("build_pipeline")
          /\ Idx("build_pipeline") < Idx("Material::new")
          /\ \A i \in 1..Len(log) :
                log[i].op = "Material::new"
                => log[i].arg[2] = log[Idx("bind_group_layout::build")].arg[1]
          /\ log[Idx("add_bind_group_layout")].arg
               = log[Idx("bind_group_layout::build")].arg
          /\ ~Has(log, "resize")
          /\ ~Has(log, "get_current_texture")
          /\ pc = "while"
    /\ (pc = "new" => log = <<>>)
    /\ (Has(log, "resize") \/ Has(log, "get_current_texture"))
          => /\ Initialized
             /\ surface # None /\ config # None /\ render_pipeline # None
             /\ triangle_mesh # None /\ quad_mesh # None
             /\ triangle_material # None /\ quad_material # None

\* State::new has returned and the loop has not started its first tick
C15_Witness ==
    /\ pc = "while"
    /\ InitLog
    /\ surface = config
    /\ quad_material # None

\* C16: for every non-empty list of formats the surface reports, the format
\* of the configuration State::new builds is the first sRGB format of the
\* list when the list has one and the first format of the list otherwise;
\* its present mode and alpha mode are the first ones reported and its
\* maximum frame latency is 2; this configuration is the one applied.
C16_FormatSelection ==
    (InitLog /\ Has(log, "get_capabilities")) =>
        LET caps    == log[Idx("get_capabilities")].arg
            formats == caps.formats
            srgb    == {i \in 1..Len(formats) : is_srgb(formats[i])}
        IN  /\ formats # <<>>
            /\ \/ /\ srgb = {}
                  /\ config.format = formats[1]
               \/ \E i \in srgb :
                     /\ \A j \in srgb : i <= j
                     /\ config.format = formats[i]
            /\ config.present_mode = caps.present_modes[1]
            /\ config.alpha_mode = caps.alpha_modes[1]
            /\ config.desired_maximum_frame_latency = 2
            /\ surface = config

\* initialized on a surface that lists a non-sRGB format before an sRGB one,
\* and Mailbox before Fifo
C16_Witness ==
    /\ InitLog
    /\ log[Idx("get_capabilities")].arg.formats = <<"Bgra8Unorm", "Bgra8UnormSrgb">>
    /\ log[Idx("get_capabilities")].arg.present_modes = <<"Mailbox", "Fifo">>
    /\ config.format = "Bgra8UnormSrgb"
    /\ config.present_mode = "Mailbox"

---------------------------------------------------------------------------
\* the log holds the calls of a tick
TickLog == Has(log, "poll_events")

\* C17: a tick runs poll_events, then the handling of every delivered event,
\* then render(), then (after Lost or Outdated only) the recovery resize,
\* then swap_buffers: every resize and every surface.configure of the tick
\* comes either before get_current_texture or after render() has returned,
\* none while a frame is acquired; an event that arrives while a frame is
\* acquired changes nothing, stays pending for the rest of the tick, is
\* delivered by the next poll_events together with everything else pending,
\* and every delivered event is handled before that tick's render().
C17_TickIsSequential ==
    /\ [](TickLog =>
            /\ log[1].op = "poll_events"
            /\ Count(log, "poll_events") = 1
            /\ \A i \in 1..Len(log) :
                  log[i].op \in {"resize", "configure", "set_should_close"}
                  => \/ ~Has(log, "get_current_texture")
                     \/ i < Idx("get_current_texture")
                     \/ (RenderIdx > 0 /\ i > RenderIdx
                           /\ log[i].op # "set_should_close"
                           /\ RenderResult \in LostOrOutdated)
            /\ \A i \in 1..Len(log) :
                  log[i].op = "swap_buffers" => (i = Len(log) /\ 0 < RenderIdx /\ RenderIdx < i))
    /\ [](pc \in {"render", "acquired", "match", "swap"} => events = <<>>)
    /\ [](pc \in {"acquired", "match", "swap"} => frame_arrivals <= os_pending)
    /\ [](pc = "while" /\ TickLog => frame_arrivals <= os_pending)
    /\ [][pc = "acquired"
          => /\ UNCHANGED <<size, config, surface, events, should_close>>
             /\ pc' \in {"acquired", "match"}]_vars
    /\ [][os_pending' > os_pending
          => UNCHANGED <<pc, size, config, surface, events, should_close, log>>]_vars
    /\ [][(pc = "poll" /\ pc' # "poll")
          => /\ pc' = "events"
             /\ Len(events') = os_pending
             /\ os_pending' = 0]_vars

\* a tick has ended during whose frame an event arrived; it is still pending
C17_Witness ==
    /\ pc = "while"
    /\ Has(log, "swap_buffers")
    /\ Has(log, "present")
    /\ ResizesBeforeRender # {}
    /\ frame_arrivals = 1
    /\ os_pending = 1

\* C18: when get_current_texture fails, render() returns that error with
\* nothing else done: no view, no encoder, no pass, no submit, no present,
\* stored size, configuration and applied configuration unchanged; and when
\* render() has returned Ok, submit and present have both been made before
\* it returned.
C18_FailedAcquireHasNoEffect ==
    /\ [][(pc = "render" /\ pc' = "match")
          => /\ result' \in SurfaceErrors
             /\ log' = log \o <<Call("get_current_texture", <<result'>>),
                                Call("render", <<result'>>)>>
             /\ UNCHANGED <<size, config, surface, render_pipeline, assets>>]_vars
    /\ []((RenderIdx > 0 /\ RenderResult # "Ok")
          => \A op \in {"create_view", "create_command_encoder", "begin_render_pass",
                        "draw", "draw_indexed", "submit", "present"} : ~Has(log, op))
    /\ [](FrameDone
          => /\ 0 < Idx("submit") /\ Idx("submit") < RenderIdx
             /\ 0 < Idx("present") /\ Idx("present") < RenderIdx)
    /\ [](pc = "match" => (result = "Ok") = FrameDone)

\* render() has just returned Lost
C18_Witness ==
    /\ pc = "match"
    /\ result = "Lost"
    /\ log[Len(log)] = Call("render", <<"Lost">>)

\* C19: once State::new has returned, the stored size, the configuration's
\* (width, height) and the (width, height) last applied to the surface are
\* the same in every state; and the recovery call resize(state.size) changes
\* none of them: if it configures the surface, it applies the configuration
\* the surface already has.
C19_SizeConfigSurfaceAgree ==
    /\ [](Initialized => /\ size = <<config.width, config.height>>
                         /\ size = <<surface.width, surface.height>>
                         /\ surface = config)
    /\ [][(pc = "match" /\ result \in LostOrOutdated)
          => /\ size' = size
             /\ config' = config
             /\ surface' = surface
             /\ \A i \in (Len(log) + 1)..Len(log') :
                   log'[i].op = "configure" => log'[i].arg = <<config.width, config.height>>]_vars

\* a tick with a rejected and an accepted resize event, then a Lost render()
\* whose recovery has re-applied the configuration
C19_Witness ==
    /\ pc = "swap"
    /\ RenderIdx > 0
    /\ RenderResult = "Lost"
    /\ \E i \in ResizesBeforeRender : NonPositive(log[i].arg)
    /\ \E i \in ResizesBeforeRender : Positive(log[i].arg)
    /\ Cardinality(ConfiguresAfterRender) = 1

=============================================================================
